---- MODULE Spec2Model ----
(***************************************************************************)
(* A model of nullsmtpd (src/nullsmtpd/nullsmtpd.py): the startup sequence *)
(* of main(), the NullSMTPDHandler constructor and its handle_DATA hook,   *)
(* the filesystem they act on, and the per-connection SMTP session that    *)
(* drives the hook.  Strings are sequences of one-character strings, a     *)
(* message body is a sequence of byte values, a filesystem path is a       *)
(* sequence of components.                                                 *)
(***************************************************************************)
EXTENDS Integers, Sequences, FiniteSets, TLC

\* ------------------------------------------------------------------ bounds

\* handle_DATA is invoked at most MaxCalls times in one behaviour.
MaxCalls == 2

\* An envelope holds at most MaxRcpts recipients.
MaxRcpts == 2

\* The wall clock (whole seconds) runs from 0 to MaxTime.
MaxTime == 1

\* ----------------------------------------------------------------- strings

\* A reply that was never produced.
None == "None"

\* A Python value that is a str or None.
PyNone == [type |-> "NoneType", val |-> <<>>]
PyStr(s) == [type |-> "str", val |-> s]
IsStr(v) == v.type = "str"

SLASH == "/"
DOT == "."
LF == "\n"

\* str.startswith(sep)
StartsWith(s, ch) == Len(s) > 0 /\ s[1] = ch

\* str.endswith(sep)
EndsWith(s, ch) == Len(s) > 0 /\ s[Len(s)] = ch

\* str.lstrip("."): drop every leading "."
RECURSIVE LStrip(_, _)
LStrip(s, ch) == IF StartsWith(s, ch) THEN LStrip(Tail(s), ch) ELSE s

\* One decimal digit as a character.
DigitChar(d) == <<"0", "1", "2", "3", "4", "5", "6", "7", "8", "9">>[d + 1]

\* "{:d}".format(n) for n >= 0
RECURSIVE FormatInt(_)
FormatInt(n) == IF n < 10 THEN <<DigitChar(n)>>
                ELSE FormatInt(n \div 10) \o <<DigitChar(n % 10)>>

\* str.split("/"): the components between separators, empty ones included.
RECURSIVE SplitFrom(_, _, _)
SplitFrom(s, i, cur) ==
  IF i > Len(s) THEN <<cur>>
  ELSE IF s[i] = SLASH THEN <<cur>> \o SplitFrom(s, i + 1, <<>>)
  ELSE SplitFrom(s, i + 1, Append(cur, s[i]))

Split(s) == SplitFrom(s, 1, <<>>)

\* posixpath.join(a, b): an absolute b discards a.
Join2(a, b) ==
  IF StartsWith(b, SLASH) THEN b
  ELSE IF a = <<>> \/ EndsWith(a, SLASH) THEN a \o b
  ELSE a \o <<SLASH>> \o b

\* posixpath.join(a, b, c)
Join3(a, b, c) == Join2(Join2(a, b), c)

\* bytes.decode('utf-8') of the byte values the model uses: the ASCII bytes
\* decode to their characters, any byte >= 128 standing alone is invalid.
AsciiChar(b) == CASE b = 10 -> LF
                  [] b = 104 -> "h"
                  [] b = 119 -> "w"
                  [] OTHER -> "?"

CanDecode(content) == \A i \in 1..Len(content) : content[i] < 128

Decode(content) == [i \in 1..Len(content) |-> AsciiChar(content[i])]

\* -------------------------------------------------------------- filesystem
\* fs.dirs: the set of directories; fs.files: path -> content of each regular
\* file.  The root <<>> is always a directory.

Root == <<>>

Parent(p) == IF p = Root THEN Root ELSE SubSeq(p, 1, Len(p) - 1)

IsDirPath(fs, p) == p \in fs.dirs

IsFilePath(fs, p) == p \in DOMAIN fs.files

\* Kernel path walk: every component is looked up in a directory that exists;
\* "" and "." stay, ".." goes to the parent, the last name need not exist.
RECURSIVE Walk(_, _, _)
Walk(fs, comps, cur) ==
  IF comps = <<>> THEN [ok |-> TRUE, path |-> cur]
  ELSE IF ~IsDirPath(fs, cur) THEN [ok |-> FALSE, path |-> cur]
  ELSE LET h == Head(comps)
       IN IF h = <<>> \/ h = <<DOT>> THEN Walk(fs, Tail(comps), cur)
          ELSE IF h = <<DOT, DOT>> THEN Walk(fs, Tail(comps), Parent(cur))
          ELSE Walk(fs, Tail(comps), Append(cur, h))

\* The working directory of the process, for relative paths.
Cwd == Root

Resolve(fs, s) == Walk(fs, Split(s), IF StartsWith(s, SLASH) THEN Root ELSE Cwd)

\* os.path.isdir(s)
IsDir(fs, s) == LET r == Resolve(fs, s) IN r.ok /\ IsDirPath(fs, r.path)

\* os.path.exists(s)
Exists(fs, s) ==
  LET r == Resolve(fs, s) IN r.ok /\ (IsDirPath(fs, r.path) \/ IsFilePath(fs, r.path))

\* os.mkdir(s): fails when the walk fails or the name is taken.
Mkdir(fs, s) ==
  LET r == Resolve(fs, s)
  IN IF r.ok /\ ~Exists(fs, s)
     THEN [ok |-> TRUE, fs |-> [fs EXCEPT !.dirs = @ \cup {r.path}]]
     ELSE [ok |-> FALSE, fs |-> fs]

\* The content of path p, empty when there is no such file.
Content(fs, p) == IF IsFilePath(fs, p) THEN fs.files[p] ELSE <<>>

\* A file with `text` added at its end, created when absent.
WithAppended(fs, p, text) ==
  [fs EXCEPT !.files = [q \in (DOMAIN @) \cup {p} |->
                          IF q = p THEN Content(fs, p) \o text ELSE @[q]]]

\* ------------------------------------------------------------- handle_DATA
\* An I/O fault the environment injects into one recipient's iteration:
\* at = 0 means none; op names the call that fails (a full disk, a revoked
\* permission); wrote is how many characters a failing write still stored.
NoFault == [at |-> 0, op |-> "none", wrote |-> 0]

FaultOps == {"mkdir", "open", "write"}

FaultAt(fault, i) == IF fault.at = i THEN fault.op ELSE "none"

Min(a, b) == IF a <= b THEN a ELSE b

\* mail_file = "{:d}.{:s}.{:s}".format(int(time.time()), mail_from, self.file_extension)
MailFile(t, mail_from, file_extension) ==
  FormatInt(t) \o <<DOT>> \o mail_from \o <<DOT>> \o file_extension

\* mail_path = os.path.join(self.mail_dir, recipient, mail_file)
MailPath(mail_dir, recipient, mail_file) == Join3(mail_dir, recipient, mail_file)

\* os.path.join(self.mail_dir, recipient)
RecipientDir(mail_dir, recipient) == Join2(mail_dir, recipient)

\* EnsureDir without the os.path.isdir test: os.mkdir is called every time.
EnsureDirAlwaysMkdir(fs, dir, op) ==
  IF op = "mkdir" THEN [ok |-> FALSE, fs |-> fs, tried |-> TRUE]
  ELSE [ok |-> Mkdir(fs, dir).ok, fs |-> Mkdir(fs, dir).fs, tried |-> TRUE]

\* if not os.path.isdir(dir): os.mkdir(dir)
\* tried tells whether os.mkdir was called.
EnsureDir(fs, dir, op) ==
  IF IsDir(fs, dir) THEN [ok |-> TRUE, fs |-> fs, tried |-> FALSE]
  ELSE IF op = "mkdir" THEN [ok |-> FALSE, fs |-> fs, tried |-> TRUE]
  ELSE [ok |-> Mkdir(fs, dir).ok, fs |-> Mkdir(fs, dir).fs, tried |-> TRUE]

\* WriteText on a file opened with mode 'w': what the file held is dropped.
WriteTextTruncating(fs, p, text) ==
  [fs EXCEPT !.files = [q \in (DOMAIN @) \cup {p} |-> IF q = p THEN text ELSE @[q]]]

\* open_file.write(data + "\n") on the file open(mail_path, 'a') returned
WriteText(fs, p, text) == WithAppended(fs, p, text)

\* AppendFile opening with mode 'w': the file is emptied before the write.
AppendFileTruncating(fs, mail_path, text, op, wrote) ==
  LET r == Resolve(fs, mail_path)
  IN IF op = "open" \/ ~r.ok \/ IsDirPath(fs, r.path)
     THEN [ok |-> FALSE, fs |-> fs, err |-> "open", leaked |-> 0]
     ELSE IF op = "write"
     THEN [ok |-> FALSE, err |-> "write", leaked |-> 0,
           fs |-> WriteTextTruncating(fs, r.path, SubSeq(text, 1, Min(wrote, Len(text) - 1)))]
     ELSE [ok |-> TRUE, fs |-> WriteTextTruncating(fs, r.path, text), err |-> "none",
           leaked |-> 0]

\* AppendFile as open, write, close in a row without the with statement: a
\* failing write skips the close.
AppendFileWithoutWith(fs, mail_path, text, op, wrote) ==
  LET r == Resolve(fs, mail_path)
  IN IF op = "open" \/ ~r.ok \/ IsDirPath(fs, r.path)
     THEN [ok |-> FALSE, fs |-> fs, err |-> "open", leaked |-> 0]
     ELSE IF op = "write"
     THEN [ok |-> FALSE, err |-> "write", leaked |-> 1,
           fs |-> WriteText(fs, r.path, SubSeq(text, 1, Min(wrote, Len(text) - 1)))]
     ELSE [ok |-> TRUE, fs |-> WriteText(fs, r.path, text), err |-> "none", leaked |-> 0]

\* with open(mail_path, 'a') as open_file: open_file.write(data + "\n")
\* The open fails when the walk fails or the path is a directory; it creates
\* the file when absent.  A failing write leaves what it stored.  The with
\* statement closes the file on the way out, normal or by exception: leaked
\* counts the files left open.
AppendFile(fs, mail_path, text, op, wrote) ==
  LET r == Resolve(fs, mail_path)
  IN IF op = "open" \/ ~r.ok \/ IsDirPath(fs, r.path)
     THEN [ok |-> FALSE, fs |-> fs, err |-> "open", leaked |-> 0]
     ELSE IF op = "write"
     THEN [ok |-> FALSE, err |-> "write", leaked |-> 0,
           fs |-> WriteText(fs, r.path, SubSeq(text, 1, Min(wrote, Len(text) - 1)))]
     ELSE [ok |-> TRUE, fs |-> WriteText(fs, r.path, text), err |-> "none", leaked |-> 0]

\* One iteration of the loop over rcpt_tos (lines 56-62) at wall-clock second t.
\* mkdirs lists the directories os.mkdir was called for.
Deliver(fs, mail_dir, file_extension, mail_from, recipient, data, t, op, wrote) ==
  LET mail_file == MailFile(t, mail_from, file_extension)
      mail_path == MailPath(mail_dir, recipient, mail_file)
      dir == RecipientDir(mail_dir, recipient)
      d == EnsureDir(fs, dir, op)
      mkdirs == IF d.tried THEN <<dir>> ELSE <<>>
      a == AppendFile(d.fs, mail_path, data \o <<LF>>, op, wrote)
  IN IF ~d.ok THEN [ok |-> FALSE, fs |-> fs, err |-> "mkdir", mkdirs |-> mkdirs,
                    leaked |-> 0]
     ELSE [ok |-> a.ok, fs |-> a.fs, err |-> a.err, mkdirs |-> mkdirs,
           leaked |-> a.leaked]

RECURSIVE DeliverFrom(_, _, _, _, _, _, _, _, _)

\* DeliverFrom catching the exception of an iteration and going on with the
\* next recipient, to raise after the loop.
DeliverFromContinuing(fs, i, mail_dir, file_extension, mail_from, rcpt_tos, data, times, fault) ==
  IF i > Len(rcpt_tos)
  THEN [fs |-> fs, raised |-> FALSE, reply |-> "250 OK", done |-> i - 1,
        clocked |-> i - 1, err |-> "none", mkdirs |-> <<>>, leaked |-> 0]
  ELSE LET s == Deliver(fs, mail_dir, file_extension, mail_from, rcpt_tos[i], data,
                        times[i], FaultAt(fault, i), fault.wrote)
       IN IF s.ok
          THEN [DeliverFrom(s.fs, i + 1, mail_dir, file_extension, mail_from, rcpt_tos,
                            data, times, fault)
                  EXCEPT !.mkdirs = s.mkdirs \o @, !.leaked = s.leaked + @]
          ELSE [DeliverFrom(s.fs, i + 1, mail_dir, file_extension, mail_from, rcpt_tos,
                            data, times, fault)
                  EXCEPT !.raised = TRUE, !.reply = None, !.done = i - 1, !.clocked = i,
                         !.err = s.err, !.mkdirs = s.mkdirs \o @]

\* DeliverFrom with the return statement inside the loop body: the success
\* reply is returned after the first recipient.
DeliverFromReturnInLoop(fs, i, mail_dir, file_extension, mail_from, rcpt_tos, data, times, fault) ==
  IF i > Len(rcpt_tos)
  THEN [fs |-> fs, raised |-> FALSE, reply |-> "250 OK", done |-> i - 1,
        clocked |-> i - 1, err |-> "none", mkdirs |-> <<>>, leaked |-> 0]
  ELSE LET s == Deliver(fs, mail_dir, file_extension, mail_from, rcpt_tos[i], data,
                        times[i], FaultAt(fault, i), fault.wrote)
       IN IF s.ok
          THEN [fs |-> s.fs, raised |-> FALSE, reply |-> "250 OK", done |-> i,
                clocked |-> i, err |-> "none", mkdirs |-> s.mkdirs, leaked |-> s.leaked]
          ELSE [fs |-> s.fs, raised |-> TRUE, reply |-> None, done |-> i - 1,
                clocked |-> i, err |-> s.err, mkdirs |-> s.mkdirs, leaked |-> s.leaked]

\* for recipient in rcpt_tos: ... ; return '250 OK'.  An exception leaves the
\* loop at once: done counts the iterations that completed, clocked those
\* that read the clock.
DeliverFrom(fs, i, mail_dir, file_extension, mail_from, rcpt_tos, data, times, fault) ==
  IF i > Len(rcpt_tos)
  THEN [fs |-> fs, raised |-> FALSE, reply |-> "250 OK", done |-> i - 1,
        clocked |-> i - 1, err |-> "none", mkdirs |-> <<>>, leaked |-> 0]
  ELSE LET s == Deliver(fs, mail_dir, file_extension, mail_from, rcpt_tos[i], data,
                        times[i], FaultAt(fault, i), fault.wrote)
       IN IF s.ok
          THEN [DeliverFrom(s.fs, i + 1, mail_dir, file_extension, mail_from, rcpt_tos,
                            data, times, fault)
                  EXCEPT !.mkdirs = s.mkdirs \o @, !.leaked = s.leaked + @]
          ELSE [fs |-> s.fs, raised |-> TRUE, reply |-> None, done |-> i - 1,
                clocked |-> i, err |-> s.err, mkdirs |-> s.mkdirs, leaked |-> s.leaked]

\* NullSMTPDHandler.handle_DATA(self, _, __, envelope)
HandleData(fs, mail_dir, file_extension, mail_from, rcpt_tos, content, times, fault) ==
  IF ~CanDecode(content)
  THEN [fs |-> fs, raised |-> TRUE, reply |-> None, done |-> 0, clocked |-> 0,
        err |-> "decode", mkdirs |-> <<>>, leaked |-> 0]
  ELSE DeliverFrom(fs, 1, mail_dir, file_extension, mail_from, rcpt_tos,
                   Decode(content), times, fault)

\* ------------------------------------------------------------------- state

\* Connection slots of the listener.
Conns == {1, 2}

\* What the command line may supply: a mail directory that can be used, one
\* that is a regular file, one whose parent is missing, and none at all.
MailDirArgs == {PyStr(<<"/", "m">>), PyStr(<<"/", "f">>),
                PyStr(<<"/", "n", "/", "m">>), PyNone}
ExtensionArgs == {<<"e">>, <<".", "e">>}

\* What the remote parties may send.
PlainSender == <<"a">>
SlashSender == <<"s", "/", "t">>
Bob == <<"b">>
Carol == <<"c">>
DotDot == <<".", ".", "/", "x">>
Hello == <<104>>
World == <<119>>
NotUtf8 == <<255>>

\* The filesystem before the program starts: a regular file /f, and either
\* no mail directory or a mail directory /m that holds a regular file c.
FreshFS == [dirs |-> {Root}, files |-> [p \in {<<(<<"f">>)>>} |-> <<>>]]
UsedFS == [dirs |-> {Root, <<(<<"m">>)>>},
           files |-> [p \in {<<(<<"f">>)>>, <<(<<"m">>), (<<"c">>)>>} |-> <<>>]]
InitialFS == {FreshFS, UsedFS}

VARIABLES
  pc,              \* where main() stands: main, fork, init, start, serving, exit
  args,            \* the parsed command line: mail_dir, file_extension
  handler,         \* the NullSMTPDHandler's fields: mail_dir, file_extension
  fs,              \* the filesystem
  clock,           \* int(time.time())
  st,              \* per connection: the session's protocol state
  envelope,        \* per connection: mail_from, rcpt_tos
  ev,              \* the last command handled: conn, cmd, reply
  busy,            \* the connection whose handle_DATA call the event loop is in; 0 when free
  calls,           \* every handle_DATA invocation so far: arguments and outcome
  prevfs           \* the filesystem as the last invocation found it

vars == <<pc, args, handler, fs, clock, st, envelope, ev, busy, calls, prevfs>>

session == <<st, envelope>>
history == <<calls, prevfs>>

\* The handler before construction: no fields yet.
NoHandler == [mail_dir |-> PyNone, file_extension |-> <<>>]

EmptyEnvelope == [mail_from |-> <<>>, rcpt_tos |-> <<>>]

NoEvent == [conn |-> 0, cmd |-> "none", reply |-> None]

NoCall == [conn |-> 0, mail_from |-> <<>>, rcpt_tos |-> <<>>, content |-> <<>>,
           times |-> <<>>, fault |-> NoFault, raised |-> FALSE, reply |-> None,
           done |-> 0, err |-> "none", mkdirs |-> <<>>, leaked |-> 0]

\* How many times handle_DATA has been invoked, and its last invocation.
ncalls == Len(calls)
last == IF calls = <<>> THEN NoCall ELSE calls[Len(calls)]

Init(W) ==
  /\ pc = "main"
  /\ args \in [mail_dir : W.mail_dirs, file_extension : W.extensions]
  /\ handler = NoHandler
  /\ fs \in W.filesystems
  /\ clock = 0
  /\ st = [c \in Conns |-> "Closed"]
  /\ envelope = [c \in Conns |-> EmptyEnvelope]
  /\ ev = NoEvent
  /\ busy = 0
  /\ calls = <<>>
  /\ prevfs = fs

\* ----------------------------------------------------------------- startup

\* MailDirPresent testing os.path.exists instead of os.path.isdir.
MailDirPresentExists(f, mail_dir) == Exists(f, mail_dir)

\* The directory test both main() and __init__ make before os.mkdir.
MailDirPresent(f, mail_dir) == IsDir(f, mail_dir)

\* main(), lines 124-125: if not os.path.isdir(args.mail_dir): os.mkdir(args.mail_dir)
\* os.path.isdir(None) raises TypeError, a failing os.mkdir raises OSError:
\* either ends the process.
MainMkdir ==
  /\ pc = "main"
  /\ LET m == Mkdir(fs, args.mail_dir.val)
     IN IF ~IsStr(args.mail_dir) THEN pc' = "exit" /\ fs' = fs
        ELSE IF MailDirPresent(fs, args.mail_dir.val) THEN pc' = "fork" /\ fs' = fs
        ELSE IF m.ok THEN pc' = "fork" /\ fs' = m.fs
        ELSE pc' = "exit" /\ fs' = fs
  /\ UNCHANGED <<args, handler, clock, session, ev, busy, history>>

\* main(), lines 127-130: the parent raises SystemExit, the child goes on;
\* with --no-fork the one process goes on.
Fork ==
  /\ pc = "fork"
  /\ pc' = "init"
  /\ UNCHANGED <<args, handler, fs, clock, session, ev, busy, history>>

\* NullSMTPDHandler.__init__ (lines 29-44), called at line 147.
HandlerInit ==
  /\ pc = "init"
  /\ LET mail_dir == args.mail_dir
         m == Mkdir(fs, mail_dir.val)
         made == [mail_dir |-> mail_dir,
                  file_extension |-> LStrip(args.file_extension, DOT)]
     IN IF mail_dir = PyNone \/ ~IsStr(mail_dir)
        THEN pc' = "exit" /\ fs' = fs /\ handler' = handler
        ELSE IF MailDirPresent(fs, mail_dir.val)
        THEN pc' = "start" /\ fs' = fs /\ handler' = made
        ELSE IF m.ok
        THEN pc' = "start" /\ fs' = m.fs /\ handler' = made
        ELSE pc' = "exit" /\ fs' = fs /\ handler' = handler
  /\ UNCHANGED <<args, clock, session, ev, busy, history>>

\* main(), lines 148-149: Controller(nullsmtpd, ...).start()
ControllerStart ==
  /\ pc = "start"
  /\ pc' = "serving"
  /\ UNCHANGED <<args, handler, fs, clock, session, ev, busy, history>>

\* ----------------------------------------------------------------- session
\* The per-connection protocol session that the Controller's listener runs
\* and that calls handle_DATA once a transaction's data phase completes.

Open(c) == st[c] # "Closed"

\* The listener runs; the model follows it for MaxCalls calls of handle_DATA.
Listening == pc = "serving" /\ ncalls < MaxCalls

\* The event loop is free to handle a command: it is one thread, and
\* handle_DATA awaits nothing, so from the call to its return or exception
\* (the blocking os.mkdir, open and write included) the loop runs nothing else.
LoopFree == busy = 0

Serving == Listening /\ LoopFree

Handled(c, cmd, reply) == ev' = [conn |-> c, cmd |-> cmd, reply |-> reply]

\* The listener accepts a connection.
Connect(c) ==
  /\ Serving
  /\ st[c] = "Closed"
  /\ st' = [st EXCEPT ![c] = "Idle"]
  /\ envelope' = [envelope EXCEPT ![c] = EmptyEnvelope]
  /\ Handled(c, "CONNECT", "220")
  /\ UNCHANGED <<pc, args, handler, fs, clock, busy, history>>

\* Identify sender: stores the sender, clears the recipients.
Mail(c, sender) ==
  /\ Serving
  /\ st[c] \in {"Idle", "SenderKnown", "RecipientsKnown"}
  /\ st' = [st EXCEPT ![c] = "SenderKnown"]
  /\ envelope' = [envelope EXCEPT ![c] = [mail_from |-> sender, rcpt_tos |-> <<>>]]
  /\ Handled(c, "MAIL", "250")
  /\ UNCHANGED <<pc, args, handler, fs, clock, busy, history>>

\* RcptAllowed without the test for a sender.
RcptAllowedAnyState(state) == state \in {"Idle", "SenderKnown", "RecipientsKnown"}

\* Whether the session takes a recipient in this state.
RcptAllowed(state) == state \in {"SenderKnown", "RecipientsKnown"}

\* Identify recipient: appended once a sender is known, rejected before.
Rcpt(c, recipient) ==
  /\ Serving
  /\ st[c] \in {"Idle", "SenderKnown", "RecipientsKnown"}
  /\ IF RcptAllowed(st[c])
     THEN /\ Len(envelope[c].rcpt_tos) < MaxRcpts
          /\ st' = [st EXCEPT ![c] = "RecipientsKnown"]
          /\ envelope' = [envelope EXCEPT ![c].rcpt_tos = Append(@, recipient)]
          /\ Handled(c, "RCPT", "250")
     ELSE /\ UNCHANGED session
          /\ Handled(c, "RCPT", "503")
  /\ UNCHANGED <<pc, args, handler, fs, clock, busy, history>>

\* DataAllowed without the test for a recipient.
DataAllowedWithoutRecipient(state) == state \in {"SenderKnown", "RecipientsKnown"}

\* Whether the session opens the data phase in this state.
DataAllowed(state) == state = "RecipientsKnown"

\* Begin data phase: only with at least one recipient, rejected otherwise.
DataBegin(c) ==
  /\ Serving
  /\ st[c] \in {"Idle", "SenderKnown", "RecipientsKnown"}
  /\ IF DataAllowed(st[c])
     THEN /\ st' = [st EXCEPT ![c] = "ReceivingData"]
          /\ UNCHANGED envelope
          /\ Handled(c, "DATA", "354")
     ELSE /\ UNCHANGED session
          /\ Handled(c, "DATA", "503")
  /\ UNCHANGED <<pc, args, handler, fs, clock, busy, history>>

\* The wall-clock seconds the iterations of one handle_DATA call may read:
\* one per recipient, never going back, from the current second on.
Timelines(n) ==
  {ts \in [1..n -> clock..MaxTime] : \A i \in 1..n - 1 : ts[i] <= ts[i + 1]}

\* The faults the environment may inject into a call with n recipients.
Faults(n, ops) ==
  {NoFault} \cup [at : 1..n, op : ops \ {"write"}, wrote : {0}]
            \cup [at : 1..n, op : ops \cap {"write"}, wrote : 0..1]

\* The reply the session sends for the hook's outcome: the hook's own status,
\* or a transient failure when the hook raised.
ReplyFor(res) == IF res.raised THEN "451" ELSE res.reply

\* The end marker arrived: the session hands the envelope to handle_DATA, and
\* the event loop is in that call until it returns or raises.
DataEnd(c) ==
  /\ Serving
  /\ st[c] = "ReceivingData"
  /\ busy' = c
  /\ UNCHANGED <<pc, args, handler, fs, clock, session, ev, history>>

\* Complete data phase: handle_DATA has run to its end, the reply follows the
\* hook's outcome, the envelope is discarded.
DataComplete(c, content, times, fault) ==
  /\ Listening
  /\ busy = c
  /\ st[c] = "ReceivingData"
  /\ \E e \in {envelope[c]} :
     \E res \in {HandleData(fs, handler.mail_dir.val, handler.file_extension,
                             e.mail_from, e.rcpt_tos, content, times, fault)} :
        /\ fs' = res.fs
        /\ prevfs' = fs
        /\ calls' = Append(calls,
                   [conn |-> c, mail_from |-> e.mail_from, rcpt_tos |-> e.rcpt_tos,
                    content |-> content, times |-> SubSeq(times, 1, res.clocked),
                    fault |-> IF fault.at <= res.clocked THEN fault ELSE NoFault,
                    raised |-> res.raised, reply |-> res.reply, done |-> res.done,
                    err |-> res.err, mkdirs |-> res.mkdirs, leaked |-> res.leaked])
        /\ clock' = IF res.clocked = 0 THEN clock ELSE times[res.clocked]
        /\ Handled(c, "DATA_END", ReplyFor(res))
  /\ st' = [st EXCEPT ![c] = "Idle"]
  /\ envelope' = [envelope EXCEPT ![c] = EmptyEnvelope]
  /\ busy' = 0
  /\ UNCHANGED <<pc, args, handler>>

\* Rset returning to Idle while the envelope keeps what it had accumulated.
RsetKeepingEnvelope(c) ==
  /\ Serving
  /\ st[c] \in {"Idle", "SenderKnown", "RecipientsKnown"}
  /\ st' = [st EXCEPT ![c] = "Idle"]
  /\ UNCHANGED envelope
  /\ Handled(c, "RSET", "250")
  /\ UNCHANGED <<pc, args, handler, fs, clock, busy, history>>

\* Reset: discards the envelope.
Rset(c) ==
  /\ Serving
  /\ st[c] \in {"Idle", "SenderKnown", "RecipientsKnown"}
  /\ st' = [st EXCEPT ![c] = "Idle"]
  /\ envelope' = [envelope EXCEPT ![c] = EmptyEnvelope]
  /\ Handled(c, "RSET", "250")
  /\ UNCHANGED <<pc, args, handler, fs, clock, busy, history>>

\* Disconnect: from any state, the envelope is discarded.
Disconnect(c) ==
  /\ Serving
  /\ Open(c)
  /\ st' = [st EXCEPT ![c] = "Closed"]
  /\ envelope' = [envelope EXCEPT ![c] = EmptyEnvelope]
  /\ Handled(c, "QUIT", None)
  /\ UNCHANGED <<pc, args, handler, fs, clock, busy, history>>

\* A second of wall-clock time passes.
Tick ==
  /\ ncalls < MaxCalls
  /\ clock < MaxTime
  /\ clock' = clock + 1
  /\ UNCHANGED <<pc, args, handler, fs, session, ev, busy, history>>

Next(W) ==
  \/ MainMkdir
  \/ Fork
  \/ HandlerInit
  \/ ControllerStart
  \/ \E c \in W.conns : Connect(c)
  \/ \E c \in W.conns, sender \in W.senders : Mail(c, sender)
  \/ \E c \in W.conns, recipient \in W.recipients : Rcpt(c, recipient)
  \/ \E c \in W.conns : DataBegin(c)
  \/ \E c \in W.conns : DataEnd(c)
  \/ \E c \in W.conns, content \in W.bodies :
       \E times \in Timelines(Len(envelope[c].rcpt_tos)),
          fault \in Faults(Len(envelope[c].rcpt_tos), W.faults) :
         DataComplete(c, content, times, fault)
  \/ \E c \in W.conns : Rset(c)
  \/ \E c \in W.conns : Disconnect(c)
  \/ Tick

\* Two remote parties at once, sending the same sender and recipient.
Shared ==
  [conns |-> Conns, mail_dirs |-> {PyStr(<<"/", "m">>)}, extensions |-> {<<"e">>},
   filesystems |-> {FreshFS}, senders |-> {PlainSender}, recipients |-> {Bob},
   bodies |-> {Hello, World}, faults |-> {"write"}]

InitShared == Init(Shared)
NextShared == Next(Shared)
SpecShared == InitShared /\ [][NextShared]_vars

\* One remote party at a time, sending anything.
Single ==
  [conns |-> {1}, mail_dirs |-> MailDirArgs, extensions |-> {<<".", "e">>},
   filesystems |-> InitialFS, senders |-> {PlainSender, SlashSender},
   recipients |-> {Bob, Carol, DotDot}, bodies |-> {Hello, NotUtf8},
   faults |-> FaultOps]

InitSingle == Init(Single)
NextSingle == Next(Single)
Spec == InitSingle /\ [][NextSingle]_vars

\* ------------------------------------------------------------------ claims

Called == calls # <<>>

\* The directory the handler writes under, as a path.
MailDirPath == Resolve(fs, handler.mail_dir.val).path

\* p lies below directory d.
Inside(d, p) == Len(p) > Len(d) /\ SubSeq(p, 1, Len(d)) = d

\* What one iteration of a call writes: the decoded body and a newline.
Text(c) == Decode(c.content) \o <<LF>>

RECURSIVE Repeat(_, _)
Repeat(text, k) == IF k = 0 THEN <<>> ELSE text \o Repeat(text, k - 1)

\* The record of a call's i-th recipient, with the recipient and the file name
\* as single names: mailDir/recipient/<seconds>.<sender>.<extension>.
RecordPath(c, i) ==
  MailDirPath \o <<c.rcpt_tos[i], MailFile(c.times[i], c.mail_from, handler.file_extension)>>

\* The file the i-th iteration of a call opened, as the kernel resolves it.
OpenedPath(c, i) ==
  Resolve(fs, MailPath(handler.mail_dir.val, c.rcpt_tos[i],
                       MailFile(c.times[i], c.mail_from, handler.file_extension)))

\* The paths a call created or changed.
Touched(before, after) ==
  (after.dirs \ before.dirs)
    \cup {p \in DOMAIN after.files : Content(before, p) # after.files[p]
                                      \/ ~IsFilePath(before, p)}

\* The environment put nothing in the call's way: the body is valid UTF-8, no
\* I/O fault was injected, no recipient's directory name is taken by a file.
Unhindered(c, before) ==
  /\ CanDecode(c.content)
  /\ c.fault = NoFault
  /\ \A i \in 1..Len(c.rcpt_tos) : ~IsFilePath(before, MailDirPath \o <<c.rcpt_tos[i]>>)

\* C1: every completed transaction yields the success reply and exactly one
\* record per recipient, mailDir/recipient/<seconds>.<sender>.<extension>,
\* each grown by the body and one newline per occurrence of the recipient, and
\* nothing else is written.
C1_OneRecordPerRecipient ==
  (Called /\ Unhindered(last, prevfs)) =>
    /\ ~last.raised
    /\ last.reply = "250 OK"
    /\ Len(last.times) = Len(last.rcpt_tos)
    /\ LET records == {RecordPath(last, i) : i \in 1..Len(last.rcpt_tos)}
           copies(p) == Cardinality({i \in 1..Len(last.rcpt_tos) : RecordPath(last, i) = p})
       IN /\ DOMAIN fs.files = DOMAIN prevfs.files \cup records
          /\ \A p \in records :
               fs.files[p] = Content(prevfs, p) \o Repeat(Text(last), copies(p))
          /\ \A p \in DOMAIN prevfs.files \ records : fs.files[p] = prevfs.files[p]

\* Every iteration of the call ran, and the file each opened holds what it held
\* before the call followed by one body-and-newline per iteration that opened it.
AllAppended(c) ==
  /\ c.done = Len(c.rcpt_tos)
  /\ Len(c.times) = Len(c.rcpt_tos)
  /\ \A i \in 1..Len(c.rcpt_tos) :
       LET r == OpenedPath(c, i)
           n == Cardinality({j \in 1..Len(c.rcpt_tos) : OpenedPath(c, j) = r})
       IN /\ r.ok
          /\ IsFilePath(fs, r.path)
          /\ fs.files[r.path] = Content(prevfs, r.path) \o Repeat(Text(c), n)

\* C2: handle_DATA returns '250 OK', and the session replies with it, only
\* when the append for every recipient of the transaction has completed; a
\* call in which a directory creation or an append failed returns no success.
C2_SuccessOnlyAfterAllAppends ==
  /\ (Called /\ last.reply = "250 OK") => AllAppended(last)
  /\ (Called /\ last.err # "none") => last.reply # "250 OK" /\ ~AllAppended(last)
  /\ (ev.cmd = "DATA_END" /\ ev.reply = "250 OK") =>
       Called /\ last.conn = ev.conn /\ AllAppended(last)

C2_Witness ==
  /\ Called
  /\ last.reply = "250 OK"
  /\ last.rcpt_tos = <<Bob, Carol>>
  /\ ev = [conn |-> 1, cmd |-> "DATA_END", reply |-> "250 OK"]

\* The replies that report a transient failure.
TransientFailure == {"421", "450", "451", "452"}

\* C3: when directory creation or the append fails for a recipient, handle_DATA
\* does not end with an unhandled error: it returns a transient-failure reply.
C3_FailureYieldsTransientReply ==
  (Called /\ last.err \in FaultOps) =>
    ~last.raised /\ last.reply \in TransientFailure

\* C4: the call produces one result per entry of rcpt_tos: every recipient is
\* attempted, whatever happened to the recipients before it.
C4_OneResultPerRecipient ==
  (Called /\ CanDecode(last.content)) => Len(last.times) = Len(last.rcpt_tos)

\* C5: whatever the recipient string, every directory created and every file
\* written by handle_DATA lies inside the mail directory.
C5_WritesStayInsideMailDir ==
  Called => \A p \in Touched(prevfs, fs) : Inside(MailDirPath, p)

IsPrefix(a, b) == Len(a) <= Len(b) /\ SubSeq(b, 1, Len(a)) = a

IsSuffix(a, b) == Len(a) <= Len(b) /\ SubSeq(b, Len(b) - Len(a) + 1, Len(b)) = a

\* Two consecutive successful calls for the same sender and the same single
\* recipient that read the same wall-clock second.
SameSecondPair ==
  /\ Len(calls) >= 2
  /\ LET a == calls[Len(calls) - 1]
         b == calls[Len(calls)]
     IN /\ ~a.raised /\ ~b.raised
        /\ a.mail_from = b.mail_from
        /\ Len(a.rcpt_tos) = 1 /\ a.rcpt_tos = b.rcpt_tos
        /\ a.times = b.times

\* C6: two transactions with the same sender, recipient and extension that
\* complete within the same second leave one file: the second creates no file,
\* and the file ends with the first body and newline followed by the second
\* body and newline.
C6_SameSecondSameFile ==
  SameSecondPair =>
    LET a == calls[Len(calls) - 1]
        b == calls[Len(calls)]
        p == RecordPath(b, 1)
    IN /\ IsFilePath(prevfs, p)
       /\ IsSuffix(Text(a), prevfs.files[p])
       /\ DOMAIN fs.files = DOMAIN prevfs.files
       /\ IsSuffix(Text(a) \o Text(b), fs.files[p])
       /\ fs.files[p] = prevfs.files[p] \o Text(b)

C6_Witness ==
  /\ SameSecondPair
  /\ calls[1].conn = 1 /\ calls[2].conn = 2
  /\ calls[1].content = Hello /\ calls[2].content = World
  /\ fs.files[RecordPath(calls[2], 1)] = <<"h", LF, "w", LF>>

\* The session of connection c completes the data phase of a transaction with
\* a sender and at least one recipient in this step.
CompletesTransaction(c) ==
  /\ st[c] = "ReceivingData"
  /\ envelope[c].mail_from # <<>>
  /\ envelope[c].rcpt_tos # <<>>
  /\ ev' = [conn |-> c, cmd |-> "DATA_END", reply |-> ev'.reply]
  /\ Len(calls') = Len(calls) + 1
  /\ SubSeq(calls', 1, Len(calls)) = calls
  /\ calls'[Len(calls')].conn = c
  /\ calls'[Len(calls')].mail_from = envelope[c].mail_from
  /\ calls'[Len(calls')].rcpt_tos = envelope[c].rcpt_tos

\* C7: once the listener runs, handle_DATA is invoked and the filesystem
\* changes only in a step that completes the data phase of a transaction with
\* a sender and at least one recipient; a data-begin command without a
\* recipient is rejected, and it and a disconnect leave the filesystem as it is.
C7_NoRecordWithoutTransaction ==
  [][/\ (pc = "serving" /\ (fs' # fs \/ calls' # calls)) =>
          \E c \in Conns : CompletesTransaction(c)
     /\ (ev' # ev /\ ev'.cmd = "DATA" /\ envelope[ev'.conn].rcpt_tos = <<>>) =>
          ev'.reply = "503" /\ UNCHANGED <<fs, calls, session>>
     /\ (ev' # ev /\ ev'.cmd = "QUIT") =>
          /\ UNCHANGED <<fs, calls>>
          /\ envelope'[ev'.conn] = EmptyEnvelope]_vars

C7_Witness ==
  /\ ev = [conn |-> 1, cmd |-> "DATA", reply |-> "503"]
  /\ st[1] = "SenderKnown"
  /\ calls = <<>>

\* C8: the listener is started, and connections are served, only with a mail
\* directory that is a string naming an existing directory; a startup that
\* finds the mail directory invalid or uncreatable exits without serving.
C8_ListenOnlyWithMailDir ==
  /\ pc \in {"start", "serving"} =>
       /\ IsStr(args.mail_dir)
       /\ Resolve(fs, args.mail_dir.val).ok
       /\ IsDirPath(fs, Resolve(fs, args.mail_dir.val).path)
       /\ handler.mail_dir = args.mail_dir
  /\ pc # "serving" => ev = NoEvent /\ \A c \in Conns : st[c] = "Closed"
  /\ (~IsStr(args.mail_dir) \/ ~IsDir(fs, args.mail_dir.val)) =>
       pc \in {"main", "fork", "init", "exit"}

C8_Witness ==
  /\ pc = "exit"
  /\ IsStr(args.mail_dir)
  /\ ~IsDir(fs, args.mail_dir.val)

\* g holds everything f holds: every directory, every file, and each file's
\* content in f at the start of its content in g.
Additive(f, g) ==
  /\ f.dirs \subseteq g.dirs
  /\ \A p \in DOMAIN f.files : IsFilePath(g, p) /\ IsPrefix(f.files[p], g.files[p])

\* The file the i-th iteration of call c opened, resolved in filesystem f.
OpenedIn(f, c, i) ==
  Resolve(f, MailPath(handler.mail_dir.val, c.rcpt_tos[i],
                      MailFile(c.times[i], c.mail_from, handler.file_extension)))

\* In filesystem `after`, each recipient's file of call c is longer than in
\* `before` by at least the body and newline, once per iteration that opened it.
EveryRecipientGrew(before, after, c) ==
  \A i \in 1..Len(c.rcpt_tos) :
    LET r == OpenedIn(after, c, i)
        n == Cardinality({j \in 1..Len(c.rcpt_tos) : OpenedIn(after, c, j) = r})
    IN /\ r.ok
       /\ IsFilePath(after, r.path)
       /\ Len(after.files[r.path]) >= Len(Content(before, r.path)) + n * Len(Text(c))

\* C9: every step only adds to the filesystem: no directory or file goes away
\* and each file keeps what it held as a prefix; a call that succeeds has
\* appended at least once per recipient.
C9_StrictlyAdditive ==
  [][/\ Additive(fs, fs')
     /\ (calls' # calls /\ ~calls'[Len(calls')].raised) =>
          EveryRecipientGrew(fs, fs', calls'[Len(calls')])]_vars

C9_Witness ==
  /\ Len(calls) = 2
  /\ calls[1].conn # calls[2].conn
  /\ ~calls[1].raised /\ ~calls[2].raised
  /\ \E p \in DOMAIN fs.files : Len(fs.files[p]) >= 4 /\ IsFilePath(prevfs, p)

\* C10: a recipient command on a connection whose sender is not identified is
\* rejected and changes nothing: the envelope's recipients stay empty, the
\* session stays open in the state it was in, nothing is written.
C10_RcptBeforeMailRejected ==
  [][/\ (ev' # ev /\ ev'.cmd = "RCPT" /\ st[ev'.conn] = "Idle") =>
          /\ ev'.reply = "503"
          /\ UNCHANGED <<session, fs, calls>>
          /\ envelope'[ev'.conn].rcpt_tos = <<>>
          /\ st'[ev'.conn] = "Idle"
     /\ \A c \in Conns : st'[c] \in {"Closed", "Idle", "SenderKnown"} =>
          envelope'[c].rcpt_tos = <<>>]_vars

C10_Witness ==
  /\ ev = [conn |-> 1, cmd |-> "RCPT", reply |-> "503"]
  /\ st[1] = "Idle"
  /\ envelope[1] = EmptyEnvelope

\* The directories and files the iterations of call c name, resolved in f.
CallPaths(f, c) ==
  {r.path : r \in {x \in {Resolve(f, RecipientDir(handler.mail_dir.val, c.rcpt_tos[i])) :
                              i \in 1..Len(c.times)} : x.ok}}
    \cup {r.path : r \in {x \in {OpenedIn(f, c, i) : i \in 1..Len(c.times)} : x.ok}}

\* s is made of copies of text, the last one possibly cut short.
MadeOf(text, s) ==
  \E k \in 0..MaxRcpts, j \in 0..Len(text) :
    s = Repeat(text, k) \o SubSeq(text, 1, j)

\* The envelope of connection c changes in this step only by being emptied,
\* by an accepted sender command, or by an accepted recipient command that
\* adds one recipient at the end.
EnvelopeStep(c) ==
  /\ envelope'[c].rcpt_tos # envelope[c].rcpt_tos =>
       \/ envelope'[c].rcpt_tos = <<>>
       \/ /\ ev' = [conn |-> c, cmd |-> "RCPT", reply |-> "250"]
          /\ Len(envelope'[c].rcpt_tos) = Len(envelope[c].rcpt_tos) + 1
          /\ IsPrefix(envelope[c].rcpt_tos, envelope'[c].rcpt_tos)
  /\ envelope'[c].mail_from # envelope[c].mail_from =>
       \/ envelope'[c] = EmptyEnvelope
       \/ ev' = [conn |-> c, cmd |-> "MAIL", reply |-> "250"] /\ envelope'[c].rcpt_tos = <<>>

CanProceed(c, W) ==
  ENABLED (\/ Connect(c)
           \/ \E sender \in W.senders : Mail(c, sender)
           \/ \E recipient \in W.recipients : Rcpt(c, recipient)
           \/ DataBegin(c)
           \/ DataEnd(c)
           \/ \E content \in W.bodies :
                \E times \in Timelines(Len(envelope[c].rcpt_tos)),
                   fault \in Faults(Len(envelope[c].rcpt_tos), W.faults) :
                  DataComplete(c, content, times, fault)
           \/ Rset(c)
           \/ Disconnect(c))

\* Another connection's persistence step is in progress.
OtherInProgress(c) == busy # 0 /\ busy # c

\* Another connection's persistence step has failed.
OtherFailed(c) == Called /\ last.raised /\ last.conn # c

\* C12: while the persistence step of one connection's transaction is in
\* progress, or after it has failed, every other connection can have a command
\* handled or its own transaction completed.
C12_OtherConnectionsProceed ==
  \A c \in Conns :
    (Listening /\ (OtherInProgress(c) \/ OtherFailed(c))) => CanProceed(c, Shared)

\* The destination of the i-th iteration of call c, as the string the code builds.
Destination(c, i) ==
  MailPath(handler.mail_dir.val, c.rcpt_tos[i],
           MailFile(c.times[i], c.mail_from, handler.file_extension))

\* The string mailDir/recipient/<seconds>.<sender>.<extension>.
Layout(mail_dir, recipient, t, sender, extension) ==
  mail_dir \o <<SLASH>> \o recipient \o <<SLASH>>
           \o FormatInt(t) \o <<DOT>> \o sender \o <<DOT>> \o extension

\* Path string s names an entry directly inside the directory named by d.
DirectlyInside(d, s) ==
  /\ Len(Split(s)) = Len(Split(d)) + 1
  /\ SubSeq(Split(s), 1, Len(Split(d))) = Split(d)

\* C13: every destination is mailDir/recipient/<seconds>.<sender>.<extension>;
\* the extension used has no leading '.', so that a configured '.e' and 'e'
\* give the same file name; and for every sender the destination names a file
\* directly inside the recipient's subdirectory.
C13_DestinationInsideRecipientDir ==
  Called =>
    \A i \in 1..Len(last.times) :
      /\ ~StartsWith(handler.file_extension, DOT)
      /\ handler.file_extension = LStrip(<<DOT>> \o args.file_extension, DOT)
      /\ handler.file_extension = LStrip(handler.file_extension, DOT)
      /\ Destination(last, i) =
           Layout(handler.mail_dir.val, last.rcpt_tos[i], last.times[i], last.mail_from,
                  handler.file_extension)
      /\ DirectlyInside(RecipientDir(handler.mail_dir.val, last.rcpt_tos[i]),
                        Destination(last, i))

\* The directory of the i-th recipient of call c, as a string.
DirOf(c, i) == RecipientDir(handler.mail_dir.val, c.rcpt_tos[i])

\* The paths of the files call c created or changed.
Written(before, after) ==
  {p \in DOMAIN after.files : ~IsFilePath(before, p) \/ before.files[p] # after.files[p]}

\* Call c, which took the filesystem from `before` to `after`, created
\* directories for its own recipients only, called os.mkdir for no directory
\* that existed and for none twice, did not fail on a recipient whose
\* directory existed, and wrote each file into a directory that exists.
LazyCall(before, after, c) ==
  /\ \A d \in after.dirs \ before.dirs :
       \E i \in 1..Len(c.times) : Resolve(after, DirOf(c, i)) = [ok |-> TRUE, path |-> d]
  /\ \A j \in 1..Len(c.mkdirs) :
       /\ ~IsDir(before, c.mkdirs[j])
       /\ \A k \in 1..Len(c.mkdirs) : k # j => c.mkdirs[k] # c.mkdirs[j]
  /\ \A i \in 1..Len(c.times) :
       IsDir(before, DirOf(c, i)) =>
         /\ \A j \in 1..Len(c.mkdirs) : c.mkdirs[j] # DirOf(c, i)
         /\ ~(c.err = "mkdir" /\ i = Len(c.times))
  /\ \A p \in Written(before, after) :
       \E i \in 1..Len(c.times) :
         /\ IsDir(after, DirOf(c, i))
         /\ Parent(p) = Resolve(after, DirOf(c, i)).path

\* C14: once the listener runs, a directory appears only in a call of
\* handle_DATA that names its recipient; os.mkdir is called only for a
\* directory that does not exist, so at most once for each; a call for a
\* recipient whose directory exists neither creates it again nor fails on it;
\* and a record is written only into a directory that exists.
C14_DirCreatedLazilyOnce ==
  [][/\ (pc = "serving" /\ fs'.dirs # fs.dirs) => calls' # calls
     /\ calls' # calls => LazyCall(fs, fs', calls'[Len(calls')])]_vars

C14_Witness ==
  /\ Len(calls) = 2
  /\ calls[1].rcpt_tos = <<Bob>> /\ calls[2].rcpt_tos = <<Bob, Carol>>
  /\ ~calls[1].raised /\ ~calls[2].raised
  /\ calls[1].mkdirs = <<DirOf(calls[1], 1)>>
  /\ calls[2].mkdirs = <<DirOf(calls[2], 2)>>

\* What file p holds in `after` beyond what it held in `before`.
Added(before, after, p) ==
  SubSeq(after.files[p], Len(Content(before, p)) + 1, Len(after.files[p]))

\* Call c, which took the filesystem from `before` to `after`, put its body and
\* newline after what each file held, in whole blocks when it succeeded, with
\* the last block possibly cut short when it failed, and left no file open.
BlockAppended(before, after, c) ==
  /\ c.leaked = 0
  /\ DOMAIN before.files \subseteq DOMAIN after.files
  /\ \A p \in Written(before, after) :
       /\ IsPrefix(Content(before, p), after.files[p])
       /\ MadeOf(Text(c), Added(before, after, p))
       /\ ~c.raised =>
            \E k \in 1..MaxRcpts : Added(before, after, p) = Repeat(Text(c), k)

\* C15: a call of handle_DATA starts only when none is running and ends
\* before another starts, on whichever connections; it adds its body and
\* newline as one block after what the file held, leaving the bytes of earlier
\* transactions as they were; and it leaves no file open, also when it fails.
C15_AppendsDoNotInterleave ==
  [][/\ busy' # busy => (busy = 0 \/ busy' = 0)
     /\ calls' # calls =>
          /\ busy = calls'[Len(calls')].conn
          /\ busy' = 0
          /\ BlockAppended(fs, fs', calls'[Len(calls')])
     /\ calls' = calls => fs'.files = fs.files]_vars

C15_Witness ==
  /\ Len(calls) = 2
  /\ calls[1].conn = 1 /\ calls[1].err = "write" /\ calls[1].leaked = 0
  /\ calls[1].content = Hello
  /\ calls[2].conn = 2 /\ ~calls[2].raised /\ calls[2].content = World
  /\ fs.files[RecordPath(calls[2], 1)] = <<"h", "w", LF>>

\* The directories and files the first n iterations of call c name.
PathsUpTo(c, n) ==
  {r.path : r \in {x \in {Resolve(fs, DirOf(c, j)) : j \in 1..n} : x.ok}}
    \cup {r.path : r \in {x \in {OpenedPath(c, j) : j \in 1..n} : x.ok}}

\* What the first n iterations of call c appended to the file the j-th opened.
AppendedUpTo(c, n, j) ==
  Repeat(Text(c), Cardinality({k \in 1..n : OpenedPath(c, k) = OpenedPath(c, j)}))

\* The call failed in the iteration of one of its recipients.
FailedAtRecipient(c) == c.raised /\ c.err \in FaultOps

\* C16: a call that fails at its i-th recipient has stopped there; the files
\* of the recipients before i hold what they held followed by the body and
\* newline; and every directory or file created or changed by the call belongs
\* to a recipient before i.
C16_FailureLeavesOnlyEarlierRecords ==
  (Called /\ FailedAtRecipient(last)) =>
    /\ Len(last.times) = last.done + 1
    /\ \A j \in 1..last.done :
         /\ OpenedPath(last, j).ok
         /\ IsFilePath(fs, OpenedPath(last, j).path)
         /\ fs.files[OpenedPath(last, j).path] =
              Content(prevfs, OpenedPath(last, j).path) \o AppendedUpTo(last, last.done, j)
    /\ Touched(prevfs, fs) \subseteq PathsUpTo(last, last.done)

\* C16, amended: a call that fails at its i-th recipient has stopped there;
\* the files of the recipients before i hold what they held followed by the
\* body and newline, and after that at most a leading part of the body that
\* the i-th iteration left; every directory or file created or changed by the
\* call belongs to a recipient up to and including i.
C16_FailureLeavesNothingLater ==
  (Called /\ FailedAtRecipient(last)) =>
    /\ Len(last.times) = last.done + 1
    /\ \A j \in 1..last.done :
         /\ OpenedPath(last, j).ok
         /\ IsFilePath(fs, OpenedPath(last, j).path)
         /\ IsPrefix(Content(prevfs, OpenedPath(last, j).path)
                       \o AppendedUpTo(last, last.done, j),
                     fs.files[OpenedPath(last, j).path])
    /\ Touched(prevfs, fs) \subseteq PathsUpTo(last, last.done + 1)
    /\ \A p \in Written(prevfs, fs) :
         \E k \in 0..last.done, n \in 0..Len(Text(last)) - 1 :
           Added(prevfs, fs, p) = Repeat(Text(last), k) \o SubSeq(Text(last), 1, n)

C16_Witness ==
  /\ Called
  /\ last.rcpt_tos = <<Bob, Carol>>
  /\ last.err = "write" /\ last.done = 1
  /\ fs.files[RecordPath(last, 1)] = <<"h", LF>>
  /\ fs.files[RecordPath(last, 2)] = <<"h">>
  /\ ~IsDirPath(prevfs, MailDirPath \o <<Carol>>)

====
